---- MODULE Spec2Model ----
(***************************************************************************)
(* vector_t<T> of hw06-vector-h3ic/vector.h as a state machine over a      *)
(* small set of container slots and a heap of element buffers, and the     *)
(* checker and solver of hw01-sudoku-h3ic as state machines over grids.    *)
(***************************************************************************)
EXTENDS Integers, Sequences, FiniteSets, TLC

\* ---------------------------------------------------------------- bounds
NumVec == 2
MaxCount == 3
MaxBuf == 2
MaxVal == 1
\* width in bits given to int in the model; size_t is twice as wide, as
\* 32-bit int and 64-bit size_t are
IntBits == 8
\* largest size the growth operations are driven to
MaxSize == 5
\* most cells blanked in a grid handed to the solver
MaxEmpty == 4

Slots == 1..NumVec
Counts == 0..MaxCount
BufIds == 1..MaxBuf
Values == 0..MaxVal

\* T* nullptr
nullptr == 0

\* content of a slot of new T[n] that was never assigned
Indet == -1

VARIABLES vec, heap, last, pw, sud

vars == <<vec, heap, last, pw, sud>>

\* the state of the vector_t objects
vecVars == <<vec, heap, last>>

\* ------------------------------------------------------- object contents

\* the three data members with their default member initialisers
DefaultFields == [capacity_ |-> 0, arr_ |-> nullptr, pos_ |-> 0]

\* a slot holding no object (before construction / after destruction)
NoObject == [live |-> FALSE, capacity_ |-> 0, arr_ |-> nullptr, pos_ |-> 0]

Obj(f) == [live |-> TRUE, capacity_ |-> f.capacity_, arr_ |-> f.arr_, pos_ |-> f.pos_]

Fields(o) == [capacity_ |-> o.capacity_, arr_ |-> o.arr_, pos_ |-> o.pos_]

\* accessors
size(o) == o.pos_
capacity(o) == o.capacity_
data(o) == o.arr_
empty(o) == (o.arr_ = nullptr)

\* the slot of the buffer (offset from arr_) that each accessor designates:
\* operator[](index) is arr_[index], front() is arr_[0], back() is
\* arr_[pos_ - 1]; with pos_ == 0 the size_t index pos_ - 1 is SIZE_MAX and
\* arr_ + SIZE_MAX is the address one element before arr_, offset -1
IndexSlot(o, index) == index
FrontSlot(o) == 0
BackSlot(o) == o.pos_ - 1

\* the buffers that have been passed to delete[]: the class has no delete
\* expression, ~vector_t() is defaulted and operator= only swaps pos_
Released == {}

\* ------------------------------------------------------------ operations

\* the ways the doubling search of the sized constructor can end: the loop
\* is left and capacity_ = power is executed; the loop never stops; the
\* program is aborted at the overflowing multiplication
SearchEnds(power) == [end |-> "assigned", power |-> power]
SearchLoops == [end |-> "loop", power |-> 0]
SearchAborts == [end |-> "abort", power |-> 0]

\* mutant: the doubling step written as power += 2
RECURSIVE PowerLoopAdd(_, _)
PowerLoopAdd(power, elem_num) ==
  IF power < elem_num THEN PowerLoopAdd(power + 2, elem_num)
  ELSE {SearchEnds(power)}

RECURSIVE TwoTo(_)
TwoTo(k) == IF k = 0 THEN 1 ELSE 2 * TwoTo(k - 1)

\* int: INT_MIN..INT_MAX
IntMax == TwoTo(IntBits - 1) - 1
IntMin == -TwoTo(IntBits - 1)

\* the value an int operation with mathematical result x leaves in the
\* register when the build lets it wrap modulo 2^IntBits; for x outside
\* INT_MIN..INT_MAX this is one of the outcomes of the overflow, see PowerLoop
WrapInt(x) == ((x + TwoTo(IntBits - 1)) % TwoTo(IntBits)) - TwoTo(IntBits - 1)

\* conversion of an int to size_t (modulo 2^(2*IntBits))
ToSizeT(x) == x % TwoTo(2 * IntBits)

\* int power = 1; while (power < elem_num) power *= 2;
\* the comparison converts power to size_t. The result is the set of ways
\* the search can end. A power *= 2 that leaves the range of int is
\* undefined behaviour, and the builds differ: the value wraps and the loop
\* goes on with it (unoptimised builds, run-time counts), the loop is
\* compiled into one that never stops (optimised builds, constant count),
\* or the program is aborted (trapping arithmetic). With power == 0 the
\* doubling no longer changes power and the loop never stops.
RECURSIVE PowerLoop(_, _)
PowerLoop(power, elem_num) ==
  IF ToSizeT(power) < elem_num
  THEN IF power = 0
       THEN {SearchLoops}
       ELSE IF power * 2 \in IntMin..IntMax
       THEN PowerLoop(power * 2, elem_num)
       ELSE PowerLoop(WrapInt(power * 2), elem_num)
              \cup {SearchLoops, SearchAborts}
  ELSE {SearchEnds(power)}

\* whether some power *= 2 of that loop leaves the range of int
RECURSIVE PowerOverflows(_, _)
PowerOverflows(power, elem_num) ==
  IF ToSizeT(power) < elem_num /\ power # 0
  THEN power * 2 \notin IntMin..IntMax
       \/ PowerOverflows(power * 2, elem_num)
  ELSE FALSE

\* vector_t(size_t elem_num, const T & = T()); power is the value the
\* doubling search ended with, buf is the address new T[] returns
SizedConstruct(elem_num, power, buf) ==
  IF elem_num = 0
  THEN [capacity_ |-> 0, arr_ |-> nullptr, pos_ |-> 0]
  ELSE [capacity_ |-> ToSizeT(power), arr_ |-> buf, pos_ |-> 0]

\* mutant: the member-wise (shallow) copy
CopyConstructShallow(other) ==
  [capacity_ |-> other.capacity_, arr_ |-> other.arr_, pos_ |-> other.pos_]

\* mutant: the copy narrows but keeps the source's capacity_
CopyConstructKeepCap(other) ==
  [capacity_ |-> other.capacity_, arr_ |-> nullptr, pos_ |-> other.pos_]

\* mutant: pos_ initialised from the wrong member
CopyConstructWrongMember(other) ==
  [capacity_ |-> 0, arr_ |-> nullptr, pos_ |-> other.capacity_]

\* vector_t(const vector_t &other) : pos_{other.pos_} {}
CopyConstruct(other) ==
  [capacity_ |-> 0, arr_ |-> nullptr, pos_ |-> other.pos_]

\* one std::swap(pos_, other.pos_)
SwapPos(p) ==
  << [p[1] EXCEPT !.pos_ = p[2].pos_], [p[2] EXCEPT !.pos_ = p[1].pos_] >>

\* mutant: capacity_ is exchanged as well, arr_ is not
SwapFieldsCapToo(x, y) ==
  << [x EXCEPT !.pos_ = y.pos_, !.capacity_ = y.capacity_],
     [y EXCEPT !.pos_ = x.pos_, !.capacity_ = x.capacity_] >>

\* mutant: capacity_ is assigned from other instead of exchanged
SwapFieldsAssign(x, y) ==
  << [x EXCEPT !.pos_ = y.pos_, !.capacity_ = y.capacity_],
     [y EXCEPT !.pos_ = x.pos_] >>

\* void swap(vector_t &other): three std::swap(pos_, other.pos_) in a row
SwapFields(x, y) == SwapPos(SwapPos(SwapPos(<<x, y>>)))

\* operator=: vector_t tmp(other); swap(tmp); return *this;
AssignFields(x, other) == SwapFields(x, CopyConstruct(other))[1]

\* ----------------------------------------------------------- state machine

\* record of the operation just executed: its arguments, the state it
\* started from, and, when it is the swap b.swap(a) right after a.swap(b),
\* the state that first swap started from
Step(op, a, b, n, v) ==
  LET back == op = "swap" /\ last.op = "swap" /\ last.a = b /\ last.b = a IN
  [op |-> op, a |-> a, b |-> b, n |-> n, v |-> v,
   pre |-> vec, preHeap |-> heap,
   back |-> back, orig |-> IF back THEN last.pre ELSE vec]

\* no doubling search has been run
PwIdle == [pc |-> "idle", n |-> 0, capacity |-> 0, overflow |-> FALSE]

\* no grid has been handed to the sudoku functions
SudIdle == [pc |-> "idle"]

InitVec ==
  /\ vec = [s \in Slots |-> NoObject]
  /\ heap = [b \in BufIds |-> << >>]
  /\ last = [op |-> "init", a |-> 0, b |-> 0, n |-> 0, v |-> 0,
             pre |-> [s \in Slots |-> NoObject],
             preHeap |-> [b \in BufIds |-> << >>],
             back |-> FALSE, orig |-> [s \in Slots |-> NoObject]]

Init ==
  /\ InitVec
  /\ pw = PwIdle
  /\ sud = SudIdle

\* vector_t<T> v;
DefaultCtor(s) ==
  /\ ~vec[s].live
  /\ vec' = [vec EXCEPT ![s] = Obj(DefaultFields)]
  /\ UNCHANGED heap
  /\ last' = Step("default", s, 0, 0, 0)
  /\ UNCHANGED <<pw, sud>>

\* vector_t<T> v(n, value); the elements of new T[capacity_] are left as
\* default-initialisation leaves them (indeterminate for a scalar T); no
\* buffer is ever released, so new returns any address not handed out before.
\* The object exists once the constructor returns, which takes a doubling
\* search that ends; the searches that do not are those of DoublingSearch
SizedCtor(s, n, value) ==
  /\ ~vec[s].live
  /\ IF n = 0
     THEN /\ vec' = [vec EXCEPT ![s] = Obj(SizedConstruct(n, 1, nullptr))]
          /\ UNCHANGED heap
     ELSE \E buf \in BufIds, out \in PowerLoop(1, n) :
            /\ out.end = "assigned"
            /\ heap[buf] = << >>
            /\ LET f == SizedConstruct(n, out.power, buf) IN
               /\ vec' = [vec EXCEPT ![s] = Obj(f)]
               /\ heap' = [heap EXCEPT ![buf] = [i \in 1..f.capacity_ |-> Indet]]
  /\ last' = Step("sized", s, 0, n, value)
  /\ UNCHANGED <<pw, sud>>

\* vector_t<T> copy(other);
CopyCtor(s, o) ==
  /\ ~vec[s].live
  /\ vec[o].live
  /\ vec' = [vec EXCEPT ![s] = Obj(CopyConstruct(Fields(vec[o])))]
  /\ UNCHANGED heap
  /\ last' = Step("copy", s, o, 0, 0)
  /\ UNCHANGED <<pw, sud>>

\* a = b; (b may be a itself); tmp is destroyed on return
Assign(a, b) ==
  /\ vec[a].live
  /\ vec[b].live
  /\ vec' = [vec EXCEPT ![a] = Obj(AssignFields(Fields(vec[a]), Fields(vec[b])))]
  /\ UNCHANGED heap
  /\ last' = Step("assign", a, b, 0, 0)
  /\ UNCHANGED <<pw, sud>>

\* a.swap(b);
Swap(a, b) ==
  /\ vec[a].live
  /\ vec[b].live
  /\ IF a = b
     THEN UNCHANGED vec
     ELSE LET r == SwapFields(Fields(vec[a]), Fields(vec[b])) IN
          vec' = [vec EXCEPT ![a] = Obj(r[1]), ![b] = Obj(r[2])]
  /\ UNCHANGED heap
  /\ last' = Step("swap", a, b, 0, 0)
  /\ UNCHANGED <<pw, sud>>

\* ~vector_t() = default;
Destroy(s) ==
  /\ vec[s].live
  /\ vec' = [vec EXCEPT ![s] = NoObject]
  /\ UNCHANGED heap
  /\ last' = Step("destroy", s, 0, 0, 0)
  /\ UNCHANGED <<pw, sud>>

Next ==
  \/ \E s \in Slots : DefaultCtor(s)
  \/ \E s \in Slots, n \in Counts, value \in Values : SizedCtor(s, n, value)
  \/ \E s \in Slots, o \in Slots : CopyCtor(s, o)
  \/ \E a \in Slots, b \in Slots : Assign(a, b)
  \/ \E a \in Slots, b \in Slots : Swap(a, b)
  \/ \E s \in Slots : Destroy(s)

Spec == Init /\ [][Next]_vars

\* ------------------------------------------------------ growth operations
\* push_back and resize are called by main.cpp but are not part of
\* vector.h; they are taken from the design: section 4.1, capacity policy
\* and table of mutating operations

\* mutant: the buffer is grown to exactly the required size
NextPow2Exact(n) == n

\* doubling from p until n is reached
RECURSIVE DoubleUpTo(_, _)
DoubleUpTo(p, n) == IF p < n THEN DoubleUpTo(2 * p, n) ELSE p

\* next_pow2(n): the smallest power of two >= n, found by doubling from 1
NextPow2(n) == IF n = 0 THEN 0 ELSE DoubleUpTo(1, n)

\* append count copies of value to container s: when the new size exceeds
\* the capacity the elements move to a new buffer of NextPow2(new size)
\* slots and the old buffer is released
AppendCopies(s, count, value) ==
  LET f == Fields(vec[s])
      newSize == f.pos_ + count
      old == IF f.arr_ = nullptr THEN << >> ELSE heap[f.arr_]
      filled(cap) == [i \in 1..cap |->
                       IF i <= f.pos_ THEN old[i]
                       ELSE IF i <= newSize THEN value
                       ELSE IF i <= Len(old) THEN old[i]
                       ELSE Indet]
  IN
  IF newSize > f.capacity_
  THEN \E buf \in BufIds :
         /\ heap[buf] = << >>
         /\ LET cap == NextPow2(newSize)
                released == IF f.arr_ = nullptr THEN heap
                            ELSE [heap EXCEPT ![f.arr_] = << >>]
            IN
            /\ heap' = [released EXCEPT ![buf] = filled(cap)]
            /\ vec' = [vec EXCEPT ![s] = Obj([capacity_ |-> cap, arr_ |-> buf,
                                              pos_ |-> newSize])]
  ELSE /\ heap' = IF f.arr_ = nullptr THEN heap
                  ELSE [heap EXCEPT ![f.arr_] = filled(f.capacity_)]
       /\ vec' = [vec EXCEPT ![s] = Obj([f EXCEPT !.pos_ = newSize])]

\* v.push_back(value);
PushBack(s, value) ==
  /\ vec[s].live
  /\ vec[s].pos_ < MaxSize
  /\ AppendCopies(s, 1, value)
  /\ last' = Step("push", s, 0, 1, value)
  /\ UNCHANGED <<pw, sud>>

\* v.resize(n, value); extends with copies of value, or truncates
\* logically without touching the capacity
Resize(s, n, value) ==
  /\ vec[s].live
  /\ IF n >= vec[s].pos_
     THEN AppendCopies(s, n - vec[s].pos_, value)
     ELSE /\ vec' = [vec EXCEPT ![s].pos_ = n]
          /\ UNCHANGED heap
  /\ last' = Step("resize", s, 0, n, value)
  /\ UNCHANGED <<pw, sud>>

\* one container, default-constructed and then grown
NextGrowth ==
  \/ DefaultCtor(1)
  \/ \E value \in Values : PushBack(1, value)
  \/ \E n \in 0..MaxSize : Resize(1, n, 0)

SpecGrowth == Init /\ [][NextGrowth]_vars

\* ------------------------------------------- the doubling search at scale

\* the counts handed to the search: up to INT_MAX + 1
BigCounts == 1..(IntMax + 1)

\* the else branch of vector_t(elem_num, value) up to capacity_ = power:
\* pc is "done" once capacity_ has been assigned, "loop" when the search
\* never stops and "abort" when the program was aborted; in the last two
\* capacity_ is never assigned
DoublingSearch(n) ==
  /\ pw.pc = "idle"
  /\ \E out \in PowerLoop(1, n) :
       pw' = [pc |-> IF out.end = "assigned" THEN "done" ELSE out.end,
              n |-> n,
              capacity |-> IF out.end = "assigned" THEN ToSizeT(out.power)
                           ELSE 0,
              overflow |-> PowerOverflows(1, n)]
  /\ UNCHANGED <<vecVars, sud>>

NextPow == \E n \in BigCounts : DoublingSearch(n)

SpecPow == Init /\ [][NextPow]_vars

TypeOK ==
  /\ \A s \in Slots : vec[s].arr_ \in {nullptr} \cup BufIds
  /\ \A b \in BufIds : \A i \in 1..Len(heap[b]) : heap[b][i] \in Values \cup {Indet}

\* ================================================== hw01-sudoku-h3ic
\* grids are std::vector<std::vector<int>>; rows and columns are numbered
\* from 0 as in the code

FIELD_SIZE == 9

Idx == 0..(FIELD_SIZE - 1)

Cell(field, row, col) == field[row + 1][col + 1]

\* mutant: the assignment is lost
SetCellLost(field, row, col, value) == field

\* field[row][col] = value;
SetCell(field, row, col, value) == [field EXCEPT ![row + 1][col + 1] = value]

\* ------------------------------------------------------ field-checker.cpp

\* is_unique: std::unique removes an element only when it equals the one
\* right before it, so the end iterator moves only for adjacent duplicates
is_unique(element) ==
  \A i \in 1..(Len(element) - 1) : element[i] # element[i + 1]

\* the block corners the last loop of check_field visits:
\* for (row = 0; row <= FIELD_SIZE - 3; row += 3)
\*   for (col = 0; col < FIELD_SIZE - 3; col += 3)
CheckedBlockRows == {row \in Idx : row % 3 = 0 /\ row <= FIELD_SIZE - 3}
CheckedBlockCols == {col \in Idx : col % 3 = 0 /\ col < FIELD_SIZE - 3}

\* the vector built from the block with corner (row, col), row by row
BlockVector(solution, row, col) ==
  [k \in 1..9 |-> Cell(solution, row + ((k - 1) \div 3), col + ((k - 1) % 3))]

ColumnVector(solution, col) ==
  [k \in 1..FIELD_SIZE |-> Cell(solution, k - 1, col)]

check_field(init_field, solution) ==
  /\ \A i \in Idx : \A j \in Idx :
       /\ ~(Cell(solution, i, j) <= 0 \/ Cell(solution, i, j) > FIELD_SIZE)
       /\ ~(Cell(init_field, i, j) # 0
              /\ Cell(solution, i, j) # Cell(init_field, i, j))
  /\ \A row \in Idx : is_unique(solution[row + 1])
  /\ \A col \in Idx : is_unique(ColumnVector(solution, col))
  /\ \A row \in CheckedBlockRows : \A col \in CheckedBlockCols :
       is_unique(BlockVector(solution, row, col))

\* ------------------------------------------------------ sudoku-solver.cpp

is_complete(field) ==
  \A row \in Idx : \A col \in Idx : Cell(field, row, col) # 0

\* the first empty cell in row-major order, {-1, -1} when there is none
find_empty_position(field) ==
  LET empties == {p \in Idx \X Idx : Cell(field, p[1], p[2]) = 0} IN
  IF empties = {} THEN <<-1, -1>>
  ELSE CHOOSE p \in empties :
         \A q \in empties : p[1] * FIELD_SIZE + p[2] <= q[1] * FIELD_SIZE + q[2]

\* 1..9 without the values of the cell's row, column and block
find_possible_values(field, empty_pos) ==
  LET row == empty_pos[1]
      col == empty_pos[2]
      row_block_corner == row - (row % 3)
      col_block_corner == col - (col % 3)
  IN (1..FIELD_SIZE)
       \ ({Cell(field, row, i) : i \in Idx}
            \cup {Cell(field, i, col) : i \in Idx}
            \cup {Cell(field, i, j) : i \in row_block_corner..(row_block_corner + 2),
                                      j \in col_block_corner..(col_block_corner + 2)})

\* the elements of a std::set<int> in iteration order
RECURSIVE InOrder(_)
InOrder(S) ==
  IF S = {} THEN << >>
  ELSE LET m == CHOOSE x \in S : \A y \in S : x <= y
       IN <<m>> \o InOrder(S \ {m})

\* the activation of solve_recursively(field) when it is entered: entry is
\* the argument, field the local copy, todo the part of possible_values the
\* for loop has not visited; a complete grid returns 1 at once
Frame(field) ==
  IF is_complete(field)
  THEN [entry |-> field, field |-> field, pos |-> <<-1, -1>>,
        todo |-> << >>, sum |-> 1]
  ELSE LET empty_pos == find_empty_position(field) IN
       [entry |-> field, field |-> field, pos |-> empty_pos,
        todo |-> InOrder(find_possible_values(field, empty_pos)), sum |-> 0]

\* ----------------------------------------------------------- sudoku inputs

\* a solved grid
SolvedGrid ==
  << <<5, 3, 4, 6, 7, 8, 9, 1, 2>>,
     <<6, 7, 2, 1, 9, 5, 3, 4, 8>>,
     <<1, 9, 8, 3, 4, 2, 5, 6, 7>>,
     <<8, 5, 9, 7, 6, 1, 4, 2, 3>>,
     <<4, 2, 6, 8, 5, 3, 7, 9, 1>>,
     <<7, 1, 3, 9, 2, 4, 8, 5, 6>>,
     <<9, 6, 1, 5, 3, 7, 2, 8, 4>>,
     <<2, 8, 7, 4, 1, 9, 6, 3, 5>>,
     <<3, 4, 5, 2, 8, 6, 1, 7, 9>> >>

ZeroGrid == [r \in 1..FIELD_SIZE |-> [c \in 1..FIELD_SIZE |-> 0]]

\* grid g with value v at position p
Put(g, p, v) == [g EXCEPT ![p[1] + 1][p[2] + 1] = v]

\* grid g with the cells of E emptied
Blank(g, E) ==
  [r \in 1..FIELD_SIZE |-> [c \in 1..FIELD_SIZE |->
     IF <<r - 1, c - 1>> \in E THEN 0 ELSE g[r][c]]]

\* grid g with rows r1 and r2 exchanged
SwapRows(g, r1, r2) ==
  [r \in 1..FIELD_SIZE |->
     IF r = r1 + 1 THEN g[r2 + 1] ELSE IF r = r2 + 1 THEN g[r1 + 1] ELSE g[r]]

\* candidate solutions: the solved grid, the solved grid with one cell
\* overwritten by any value of 0..10, and with two rows exchanged
CheckSolutions ==
  {Put(SolvedGrid, p, v) : p \in Idx \X Idx, v \in 0..(FIELD_SIZE + 1)}
    \cup {SwapRows(SolvedGrid, p[1], p[2]) : p \in Idx \X Idx}

\* original grids: empty, the solved grid, and the solved grid with its
\* first cell emptied or changed
CheckInits ==
  {ZeroGrid, SolvedGrid} \cup {Put(SolvedGrid, <<0, 0>>, v) : v \in {0, 6}}

\* the cells that may be emptied; the first four leave two completions
BlankPool ==
  {<<3, 5>>, <<3, 8>>, <<4, 5>>, <<4, 8>>, <<0, 0>>, <<8, 8>>}

\* grids for the solver: one cell of the solved grid set to any value of
\* 1..9 (5 leaves it as it is), then at most MaxEmpty cells emptied
SolveInputs ==
  {Blank(Put(SolvedGrid, <<4, 4>>, v), E) :
     v \in 1..FIELD_SIZE,
     E \in {X \in SUBSET BlankPool : Cardinality(X) <= MaxEmpty}}

\* -------------------------------------------------- sudoku state machines

\* check_field(init_field, solution)
CheckFieldCall(init_field, solution) ==
  /\ sud.pc = "idle"
  /\ sud' = [pc |-> "checked", init |-> init_field, solution |-> solution,
             ret |-> check_field(init_field, solution)]
  /\ UNCHANGED <<vecVars, pw>>

NextCheck ==
  \E init_field \in CheckInits, solution \in CheckSolutions :
    CheckFieldCall(init_field, solution)

SpecCheck == Init /\ [][NextCheck]_vars

\* sudoku_solve(field): a full grid returns 1, any other grid is handed to
\* solve_recursively
SudokuSolve(field) ==
  /\ sud.pc = "idle"
  /\ IF is_complete(field)
     THEN sud' = [pc |-> "done", input |-> field, stack |-> << >>, ret |-> 1]
     ELSE sud' = [pc |-> "solving", input |-> field,
                  stack |-> <<Frame(field)>>, ret |-> 0]
  /\ UNCHANGED <<vecVars, pw>>

\* one turn of the for loop of the innermost activation:
\* field[row][col] = value; sum += solve_recursively(field);
\* up to the entry of the callee
RecursiveCall ==
  /\ sud.pc = "solving"
  /\ LET n == Len(sud.stack)
         top == sud.stack[n]
     IN
     /\ top.todo # << >>
     /\ LET filled == SetCell(top.field, top.pos[1], top.pos[2], Head(top.todo))
            caller == [top EXCEPT !.field = filled, !.todo = Tail(top.todo)]
        IN sud' = [sud EXCEPT !.stack =
                     Append([sud.stack EXCEPT ![n] = caller], Frame(filled))]
  /\ UNCHANGED <<vecVars, pw>>

\* return sum; (return 1; for a complete grid): the value is added to the
\* caller's sum, or becomes the result of sudoku_solve
Return ==
  /\ sud.pc = "solving"
  /\ LET n == Len(sud.stack)
         top == sud.stack[n]
     IN
     /\ top.todo = << >>
     /\ IF n = 1
        THEN sud' = [sud EXCEPT !.pc = "done", !.stack = << >>, !.ret = top.sum]
        ELSE sud' = [sud EXCEPT !.stack =
                       [SubSeq(sud.stack, 1, n - 1) EXCEPT
                          ![n - 1].sum = sud.stack[n - 1].sum + top.sum]]
  /\ UNCHANGED <<vecVars, pw>>

NextSolve ==
  \/ \E field \in SolveInputs : SudokuSolve(field)
  \/ RecursiveCall
  \/ Return

SpecSolve == Init /\ [][NextSolve]_vars

\* ------------------------------------------------------ specification side

\* the powers of two up to 2^MaxCount
RECURSIVE Pow2(_)
Pow2(k) == IF k = 0 THEN 1 ELSE 2 * Pow2(k - 1)

IsPow2(c) == \E k \in 0..c : Pow2(k) = c

\* smallest power of two >= n, and 0 for n = 0
SmallestPow2GE(n) ==
  IF n = 0 THEN 0
  ELSE CHOOSE p \in {Pow2(k) : k \in 0..n} :
         /\ p >= n
         /\ \A q \in {Pow2(k) : k \in 0..n} : q >= n => p <= q

\* what slot i of the buffer of a container holds in heap h: a definite
\* value, or nothing definite (no buffer, outside it, or never assigned)
Elem(h, f, i) ==
  IF f.arr_ = nullptr THEN {}
  ELSE IF i + 1 > Len(h[f.arr_]) THEN {}
  ELSE IF h[f.arr_][i + 1] = Indet THEN {}
  ELSE {h[f.arr_][i + 1]}

\* the live ranges [0, size) of x in heap hx and of y in heap hy hold the
\* same definite values
SameElems(hx, x, hy, y) ==
  /\ size(x) = size(y)
  /\ \A i \in 0..(size(x) - 1) :
       Elem(hx, x, i) # {} /\ Elem(hx, x, i) = Elem(hy, y, i)

Live == {s \in Slots : vec[s].live}

\* C1: every live container has size() <= capacity()
C1_SizeLeCapacity ==
  \A s \in Live : size(vec[s]) <= capacity(vec[s])

C1_Witness ==
  /\ last.op = "swap" /\ last.a # last.b
  /\ capacity(vec[last.a]) > capacity(vec[last.b])
  /\ capacity(vec[last.b]) > 0

\* C2: capacity() of every live container is 0 or an exact power of two
C2_CapacityPow2 ==
  \A s \in Live : capacity(vec[s]) = 0 \/ IsPow2(capacity(vec[s]))

C2_Witness ==
  /\ last.op = "sized" /\ last.n = 3
  /\ capacity(vec[last.a]) = 4

\* C3: capacity() == 0 exactly when the container has no buffer
C3_CapacityZeroIffNoBuffer ==
  \A s \in Live : (capacity(vec[s]) = 0) <=> (data(vec[s]) = nullptr)

C3_Witness ==
  /\ last.op = "swap" /\ last.a # last.b
  /\ capacity(last.pre[last.a]) > 0 /\ data(last.pre[last.a]) # nullptr
  /\ capacity(last.pre[last.b]) = 0

\* C4: vector_t(n, value) equals the default container for n = 0, and for
\* n > 0 has size n, capacity the smallest power of two >= n, is not empty
\* and holds value in every slot of [0, n)
C4_SizedConstruction ==
  last.op = "sized" =>
    LET v == vec[last.a] IN
    IF last.n = 0
    THEN Fields(v) = DefaultFields
    ELSE /\ size(v) = last.n
         /\ capacity(v) = SmallestPow2GE(last.n)
         /\ ~empty(v)
         /\ \A i \in 0..(last.n - 1) : Elem(heap, v, i) = {last.v}

\* C5: a copy has the source's size, the smallest power-of-two capacity for
\* that size (0 and no buffer for size 0), the source's elements, and for a
\* non-empty source a buffer of its own that was not allocated before
C5_CopyConstruction ==
  last.op = "copy" =>
    LET new == vec[last.a]
        other == vec[last.b] IN
    /\ size(new) = size(other)
    /\ capacity(new) = SmallestPow2GE(size(other))
    /\ size(other) = 0 => data(new) = nullptr
    /\ SameElems(heap, new, heap, other)
    /\ size(other) > 0 =>
         /\ data(new) # nullptr
         /\ data(new) # data(other)
         /\ last.preHeap[data(new)] = << >>

C5_Witness ==
  /\ last.op = "copy"
  /\ capacity(vec[last.b]) > 0
  /\ capacity(vec[last.a]) = 0 /\ data(vec[last.a]) = nullptr

\* C6: after a = b with a, b distinct, a has b's size, the smallest
\* power-of-two capacity for it (0 and no buffer for size 0), b's elements,
\* a buffer other than b's when b is non-empty, and b is unchanged
C6_CopyAssignment ==
  (last.op = "assign" /\ last.a # last.b) =>
    LET a == vec[last.a]
        b == vec[last.b] IN
    /\ size(a) = size(b)
    /\ capacity(a) = SmallestPow2GE(size(b))
    /\ size(b) = 0 => data(a) = nullptr
    /\ SameElems(heap, a, heap, b)
    /\ size(b) > 0 => data(a) # data(b)
    /\ b = last.pre[last.b]
    /\ heap = last.preHeap

\* C7: a = a leaves size(), capacity() and the elements of [0, size) as
\* they were
C7_SelfAssignment ==
  (last.op = "assign" /\ last.a = last.b) =>
    LET a == vec[last.a]
        before == last.pre[last.a] IN
    /\ size(a) = size(before)
    /\ capacity(a) = capacity(before)
    /\ \A i \in 0..(size(a) - 1) : Elem(heap, a, i) = Elem(last.preHeap, before, i)

C7_Witness ==
  /\ last.op = "assign" /\ last.a = last.b
  /\ capacity(last.pre[last.a]) > 1
  /\ data(vec[last.a]) # nullptr

\* C8: a.swap(b) leaves a with b's former size, capacity and buffer and b
\* with a's, and copies no element
C8_SwapExchanges ==
  last.op = "swap" =>
    /\ Fields(vec[last.a]) = Fields(last.pre[last.b])
    /\ Fields(vec[last.b]) = Fields(last.pre[last.a])
    /\ heap = last.preHeap

\* C9: a.swap(b) followed by b.swap(a) restores size, capacity and buffer
\* of both containers
C9_SwapInvolution ==
  (last.op = "swap" /\ last.back) =>
    /\ Fields(vec[last.a]) = Fields(last.orig[last.a])
    /\ Fields(vec[last.b]) = Fields(last.orig[last.b])

C9_Witness ==
  /\ last.op = "swap" /\ last.back /\ last.a # last.b
  /\ capacity(last.orig[last.a]) # capacity(last.orig[last.b])
  /\ data(last.orig[last.a]) # nullptr

\* C10: no two distinct live containers hold the same non-null buffer
C10_NoSharedBuffer ==
  \A s \in Live : \A t \in Live :
    (s # t /\ data(vec[s]) # nullptr) => data(vec[s]) # data(vec[t])

C10_Witness ==
  /\ last.op = "assign" /\ last.a # last.b
  /\ data(vec[last.a]) # nullptr
  /\ data(vec[last.b]) # nullptr

\* the buffers some allocation has returned
Allocated == {b \in BufIds : heap[b] # << >>}

\* C11: empty() is true exactly when size() == 0, for every live container
C11_EmptyIffSizeZero ==
  \A s \in Live : empty(vec[s]) <=> (size(vec[s]) = 0)

\* C12: once every container has been destroyed, every buffer that was
\* allocated has been released
C12_NoLeakAfterDestruction ==
  (last.op = "destroy" /\ Live = {}) => Allocated \subseteq Released

\* C14: a container built as vector_t(n, v) with n > 0 has size() > 0, its
\* front() is the slot of operator[](0), its back() is the slot of
\* operator[](size() - 1), and both slots lie inside [0, capacity())
C14_FrontBackSlots ==
  (last.op = "sized" /\ last.n > 0) =>
    LET v == vec[last.a] IN
    /\ size(v) > 0
    /\ FrontSlot(v) = IndexSlot(v, 0)
    /\ BackSlot(v) = IndexSlot(v, size(v) - 1)
    /\ FrontSlot(v) \in 0..(capacity(v) - 1)
    /\ BackSlot(v) \in 0..(capacity(v) - 1)

\* c is a power of two
RECURSIVE IsPowerOfTwo(_)
IsPowerOfTwo(c) ==
  IF c <= 0 THEN FALSE
  ELSE IF c = 1 THEN TRUE
  ELSE c % 2 = 0 /\ IsPowerOfTwo(c \div 2)

\* C18: for every count n >= 1 the doubling search never leaves the range
\* of int, terminates, and ends with capacity the smallest power of two >= n
C18_DoublingNoOverflow ==
  pw.pc # "idle" =>
    /\ pw.pc = "done"
    /\ ~pw.overflow
    /\ IsPowerOfTwo(pw.capacity)
    /\ pw.capacity >= pw.n
    /\ pw.capacity < 2 * pw.n

\* C13: an operation that takes size() beyond the capacity it found leaves
\* capacity() at the smallest power of two >= the new size
C13_GrowthLaw ==
  (last.op \in {"push", "resize"}
     /\ size(vec[last.a]) > capacity(last.pre[last.a])) =>
    capacity(vec[last.a]) = SmallestPow2GE(size(vec[last.a]))

\* the fifth push_back onto an empty container: capacity 4 becomes 8
C13_Witness ==
  /\ last.op = "push"
  /\ size(vec[last.a]) = 5
  /\ capacity(last.pre[last.a]) = 4
  /\ capacity(vec[last.a]) = 8

\* the values of a row, a column and a block of a grid
RowValues(g, r) == {Cell(g, r, c) : c \in Idx}
ColValues(g, c) == {Cell(g, r, c) : r \in Idx}
BlockValues(g, br, bc) ==
  {Cell(g, 3 * br + i, 3 * bc + j) : i \in 0..2, j \in 0..2}

\* every cell is in 1..9 and no row, column or block repeats a value
ValidGrid(g) ==
  /\ \A r \in Idx : \A c \in Idx : Cell(g, r, c) \in 1..FIELD_SIZE
  /\ \A r \in Idx : Cardinality(RowValues(g, r)) = FIELD_SIZE
  /\ \A c \in Idx : Cardinality(ColValues(g, c)) = FIELD_SIZE
  /\ \A br \in 0..2 : \A bc \in 0..2 : Cardinality(BlockValues(g, br, bc)) = FIELD_SIZE

\* g keeps every non-zero cell of init
Keeps(init, g) ==
  \A r \in Idx : \A c \in Idx :
    Cell(init, r, c) # 0 => Cell(g, r, c) = Cell(init, r, c)

EmptyCells(g) == {p \in Idx \X Idx : Cell(g, p[1], p[2]) = 0}

\* the number of valid full grids that keep the non-zero cells of g
NumCompletions(g) ==
  Cardinality({f \in [EmptyCells(g) -> 1..FIELD_SIZE] :
     ValidGrid([r \in 1..FIELD_SIZE |-> [c \in 1..FIELD_SIZE |->
        IF g[r][c] = 0 THEN f[<<r - 1, c - 1>>] ELSE g[r][c]]])})

\* C15: check_field returns true exactly when the solution is in range,
\* keeps the prefilled cells and has no duplicate in any row, column or
\* 3x3 block
C15_CheckFieldIffValid ==
  sud.pc = "checked" =>
    (sud.ret <=> (ValidGrid(sud.solution) /\ Keeps(sud.init, sud.solution)))

\* C16: the count sudoku_solve returns is the number of valid completions
\* of its input
C16_CountIsNumCompletions ==
  sud.pc = "done" => sud.ret = NumCompletions(sud.input)

\* C17: every activation of solve_recursively below the first was called
\* on its caller's grid with the first empty cell filled by a value of
\* 1..9, so with strictly fewer empty cells; the depth never exceeds the
\* number of empty cells of the input plus one; an activation whose cell
\* has no candidate is innermost and returns 0
C17_RecursionDescends ==
  sud.pc = "solving" =>
    LET n == Len(sud.stack) IN
    /\ n <= Cardinality(EmptyCells(sud.input)) + 1
    /\ sud.stack[1].entry = sud.input
    /\ \A i \in 1..(n - 1) :
         LET caller == sud.stack[i].entry
             callee == sud.stack[i + 1].entry
             first == CHOOSE p \in EmptyCells(caller) :
                        \A q \in EmptyCells(caller) :
                          p[1] < q[1] \/ (p[1] = q[1] /\ p[2] <= q[2])
         IN /\ EmptyCells(caller) # {}
            /\ \E v \in 1..FIELD_SIZE : callee = Put(caller, first, v)
            /\ Cardinality(EmptyCells(callee)) < Cardinality(EmptyCells(caller))
    /\ \A i \in 1..n :
         (sud.stack[i].todo = << >>
            /\ sud.stack[i].field = sud.stack[i].entry
            /\ EmptyCells(sud.stack[i].entry) # {})
           => (i = n /\ sud.stack[i].sum = 0)

\* the recursion has reached a complete grid through four filled cells
C17_Witness ==
  /\ sud.pc = "solving"
  /\ Cardinality(EmptyCells(sud.input)) >= 4
  /\ Len(sud.stack) = Cardinality(EmptyCells(sud.input)) + 1
  /\ EmptyCells(sud.stack[Len(sud.stack)].entry) = {}
====
